---- MODULE Spec2Model ----
(***************************************************************************)
(* Model of src/app.py: the website-to-marketing-report pipeline           *)
(* (WebsiteAnalyzer.scrape_website, analyze_content,                        *)
(* generate_recommendations and the request handling of main).             *)
(*                                                                         *)
(* A text is a sequence of one-character strings, so that len(), slicing,  *)
(* strip(), split() and startswith() are modelled by what they do.         *)
(* A Python dict is a sequence of <<key, value>> pairs in insertion order. *)
(***************************************************************************)
EXTENDS Integers, Sequences, FiniteSets, TLC

VARIABLES
    pc,                 \* position of the script run of main
    text_input,         \* the sidebar's URL text box (st.text_input)
    example_url,        \* st.session_state.example_url, <<>> when absent
    url,                \* main's local url
    now,                \* wall clock, in seconds
    cache,              \* st.cache_data store of scrape_website: url -> entry
    netCalls,           \* number of session.get requests issued so far
    scrapeLog,          \* history of the calls of scrape_website
    scrape_result,      \* main's local scrape_result
    structured_content, \* analyze_content's prompt body
    analysis_results,   \* analyze_content's results / main's analysis_results
    recommendations,    \* generate_recommendations' recommendations
    task,               \* index of the next question of the running battery
    calls,              \* trace of the completion requests of this script run
    export_data,        \* main's export_data
    message,            \* what the script run showed last
    runs,               \* number of user actions so far
    ticks,              \* number of clock ticks so far
    faults,             \* whether the completion service may fail in this session
    norm,               \* the normalisation being evaluated (SpecNormalize)
    roundtrip,          \* the JSON download and its reading back (SpecExport)
    analysis_text       \* generate_recommendations' digest of the analysis

vars == <<pc, text_input, example_url, url, now, cache, netCalls, scrapeLog,
          scrape_result, structured_content, analysis_results, recommendations,
          task, calls, export_data, message, runs, ticks, faults, norm,
          roundtrip, analysis_text>>

pipelineVars == <<pc, text_input, example_url, url, now, cache, netCalls,
                  scrapeLog, scrape_result, structured_content, analysis_results,
                  recommendations, task, calls, export_data, message,
                  runs, ticks, faults, analysis_text>>

-----------------------------------------------------------------------------
(* Bounds of the model *)

\* longest text enumerated character by character
MaxLen == 5
\* largest limit tried for normalize(x, L) beside the program's own
MaxLimit == 3
\* script runs of one session when the completion service is healthy
MaxRuns == 2
\* the clock is followed up to this time, one ttl after the start
MaxClock == 3600
\* how far a long page's text exceeds the content limit
MaxExcess == 2
\* example buttons the user chooses among (the first ones of example_sites)
MaxExamples == 1

-----------------------------------------------------------------------------
(* Program constants *)

\* len(content) > 4000, content[:4000]
ContentLimit == 4000
\* @st.cache_data(ttl=3600)
CacheTTL == 3600
\* headings[:10]
MaxHeadings == 10

\* '... [content truncated for analysis]' (36 characters)
TruncationMarker ==
    <<".",".","."," ","[","c","o","n","t","e","n","t"," ","t","r","u","n","c","a","t","e","d"," ","f","o","r"," ","a","n","a","l","y","s","i","s","]">>
\* 'Website took too long to respond (timeout)'
TimeoutMessage ==
    <<"W","e","b","s","i","t","e"," ","t","o","o","k"," ","t","o","o"," ","l","o","n","g"," ","t","o"," ","r","e","s","p","o","n","d"," ","(","t","i","m","e","o","u","t",")">>
\* 'Could not connect to website'
ConnectionMessage ==
    <<"C","o","u","l","d"," ","n","o","t"," ","c","o","n","n","e","c","t"," ","t","o"," ","w","e","b","s","i","t","e">>
\* 'HTTP Error: '
HTTPErrorPrefix ==
    <<"H","T","T","P"," ","E","r","r","o","r",":"," ">>
\* 'Unexpected error: '
UnexpectedPrefix ==
    <<"U","n","e","x","p","e","c","t","e","d"," ","e","r","r","o","r",":"," ">>
\* 'Analysis error: '
AnalysisErrorPrefix ==
    <<"A","n","a","l","y","s","i","s"," ","e","r","r","o","r",":"," ">>
\* 'Error generating recommendations: '
RecommendationErrorPrefix ==
    <<"E","r","r","o","r"," ","g","e","n","e","r","a","t","i","n","g"," ","r","e","c","o","m","m","e","n","d","a","t","i","o","n","s",":"," ">>
\* 'No title found'
NoTitleFound ==
    <<"N","o"," ","t","i","t","l","e"," ","f","o","u","n","d">>
\* 'No description found'
NoDescriptionFound ==
    <<"N","o"," ","d","e","s","c","r","i","p","t","i","o","n"," ","f","o","u","n","d">>
\* 'http://'
HttpScheme ==
    <<"h","t","t","p",":","/","/">>
\* 'https://'
HttpsScheme ==
    <<"h","t","t","p","s",":","/","/">>

-----------------------------------------------------------------------------
(* Python's str operations on texts *)

\* the characters str.strip() removes (of the model's alphabet)
Whitespace == {" ", "\t", "\n"}
\* the characters str.splitlines() breaks at (of the model's alphabet)
LineBoundaries == {"\n"}

Min(S) == CHOOSE x \in S : \A y \in S : x <= y

StartsWith(s, prefix) ==
    /\ Len(s) >= Len(prefix)
    /\ SubSeq(s, 1, Len(prefix)) = prefix

EndsWith(s, suffix) ==
    /\ Len(s) >= Len(suffix)
    /\ SubSeq(s, Len(s) - Len(suffix) + 1, Len(s)) = suffix

RECURSIVE LStrip(_)
LStrip(s) ==
    IF Len(s) > 0 /\ s[1] \in Whitespace THEN LStrip(Tail(s)) ELSE s

RECURSIVE RStrip(_)
RStrip(s) ==
    IF Len(s) > 0 /\ s[Len(s)] \in Whitespace
    THEN RStrip(SubSeq(s, 1, Len(s) - 1))
    ELSE s

\* str.strip()
Strip(s) == RStrip(LStrip(s))

\* str.splitlines(): no empty last line after a final line break
RECURSIVE SplitLines(_)
SplitLines(s) ==
    LET brk == {i \in 1..Len(s) : s[i] \in LineBoundaries}
    IN  IF Len(s) = 0 THEN <<>>
        ELSE IF brk = {} THEN <<s>>
        ELSE <<SubSeq(s, 1, Min(brk) - 1)>>
                 \o SplitLines(SubSeq(s, Min(brk) + 1, Len(s)))

\* str.split("  "): leftmost, non-overlapping occurrences of two spaces
RECURSIVE SplitDoubleSpace(_)
SplitDoubleSpace(s) ==
    LET hits == {i \in 1..(Len(s) - 1) : s[i] = " " /\ s[i + 1] = " "}
    IN  IF hits = {} THEN <<s>>
        ELSE <<SubSeq(s, 1, Min(hits) - 1)>>
                 \o SplitDoubleSpace(SubSeq(s, Min(hits) + 2, Len(s)))

\* sep.join(parts)
RECURSIVE Join(_, _)
Join(parts, sep) ==
    IF Len(parts) = 0 THEN <<>>
    ELSE IF Len(parts) = 1 THEN parts[1]
    ELSE parts[1] \o sep \o Join(Tail(parts), sep)

\* the concatenation of a sequence of sequences (a nested generator)
RECURSIVE Flatten(_)
Flatten(seqs) ==
    IF Len(seqs) = 0 THEN <<>> ELSE seqs[1] \o Flatten(Tail(seqs))

NonEmpty(s) == Len(s) > 0

\* str(n) of a natural number
RECURSIVE IntToText(_)
IntToText(n) ==
    LET digit == <<"0","1","2","3","4","5","6","7","8","9">>[(n % 10) + 1]
    IN  IF n < 10 THEN <<digit>> ELSE IntToText(n \div 10) \o <<digit>>

-----------------------------------------------------------------------------
(* Python dicts, in insertion order *)

DictKeys(d) == [k \in 1..Len(d) |-> d[k][1]]
DictKeySet(d) == {d[k][1] : k \in 1..Len(d)}
DictHas(d, key) == key \in DictKeySet(d)
DictGet(d, key) == d[CHOOSE k \in 1..Len(d) : d[k][1] = key][2]
\* d[key] = value: in place when the key exists, appended otherwise
DictSet(d, key, value) ==
    IF DictHas(d, key)
    THEN [k \in 1..Len(d) |-> IF d[k][1] = key THEN <<key, value>> ELSE d[k]]
    ELSE Append(d, <<key, value>>)

-----------------------------------------------------------------------------
(* Normalisation: the clean-up of scrape_website, the limit of analyze_content *)

\* mutant: ' '.join(chunks), the filter "if chunk" forgotten
CleanTextKeepingEmpty(text_content) ==
    LET raw    == SplitLines(text_content)
        lines  == [k \in 1..Len(raw) |-> Strip(raw[k])]
        perLine == [k \in 1..Len(lines) |->
                      LET phrases == SplitDoubleSpace(lines[k])
                      IN  [j \in 1..Len(phrases) |-> Strip(phrases[j])]]
    IN  Join(Flatten(perLine), <<" ">>)

\* lines = (line.strip() for line in text_content.splitlines())
\* chunks = (phrase.strip() for line in lines for phrase in line.split("  "))
\* text_content = ' '.join(chunk for chunk in chunks if chunk)
CleanText(text_content) ==
    LET raw    == SplitLines(text_content)
        lines  == [k \in 1..Len(raw) |-> Strip(raw[k])]
        perLine == [k \in 1..Len(lines) |->
                      LET phrases == SplitDoubleSpace(lines[k])
                      IN  [j \in 1..Len(phrases) |-> Strip(phrases[j])]]
        chunks == Flatten(perLine)
    IN  Join(SelectSeq(chunks, NonEmpty), <<" ">>)

\* mutant: content[:4001]
TruncateContentOffByOne(content, limit) ==
    IF Len(content) > limit
    THEN SubSeq(content, 1, limit + 1) \o TruncationMarker
    ELSE content

\* mutant: the marker counted within the limit
TruncateContentWithinLimit(content, limit) ==
    IF Len(content) > limit
    THEN SubSeq(content, 1, limit - Len(TruncationMarker)) \o TruncationMarker
    ELSE content

\* mutant: len(content) >= 4000
TruncateContentAtLimit(content, limit) ==
    IF Len(content) >= limit
    THEN SubSeq(content, 1, limit) \o TruncationMarker
    ELSE content

\* if len(content) > 4000: content = content[:4000] + "... [content truncated for analysis]"
TruncateContent(content, limit) ==
    IF Len(content) > limit
    THEN SubSeq(content, 1, limit) \o TruncationMarker
    ELSE content

\* the spec's normalize(content, limit): clean-up, then the limit
Normalize(content, limit) == TruncateContent(CleanText(content), limit)

-----------------------------------------------------------------------------
(* scrape_website: the body, without the cache *)

\* soup(["script", "style", "nav", "footer"]): the elements decomposed
RemovedTags == {"script", "style", "nav", "footer"}

\* A parsed document is the sequence of its elements in document order, each
\* [tag, text]; a meta element is the description meta tag and its text the
\* content attribute.
Remaining(doc) == SelectSeq(doc, LAMBDA e : e.tag \notin RemovedTags)

\* soup.get_text(): the text nodes in document order (a meta tag has none)
GetText(doc) ==
    LET kept == SelectSeq(Remaining(doc), LAMBDA e : e.tag # "meta")
    IN  Flatten([k \in 1..Len(kept) |-> kept[k].text])

\* soup.find(tag): the first such element, as a sequence of zero or one element
FindFirst(doc, tag) ==
    LET found == SelectSeq(Remaining(doc), LAMBDA e : e.tag = tag)
    IN  IF Len(found) = 0 THEN <<>> ELSE <<found[1]>>

\* for heading in soup.find_all(f'h{i}'): headings.append(heading.get_text().strip())
FindAllHeadings(doc, level) ==
    LET found == SelectSeq(Remaining(doc), LAMBDA e : e.tag = level)
    IN  [k \in 1..Len(found) |-> Strip(found[k].text)]

\* for i in range(1, 4): ... ; headings[:10]
ExtractHeadings(doc) ==
    LET headings == FindAllHeadings(doc, "h1") \o FindAllHeadings(doc, "h2")
                        \o FindAllHeadings(doc, "h3")
    IN  SubSeq(headings, 1, IF Len(headings) < MaxHeadings
                            THEN Len(headings) ELSE MaxHeadings)

\* the success branch: the dict returned at the end of the try block
ScrapeSuccess(status, doc) ==
    LET text_content == CleanText(GetText(doc))
        title        == FindFirst(doc, "title")
        meta_desc    == FindFirst(doc, "meta")
    IN  [success        |-> TRUE,
         content        |-> text_content,
         title          |-> IF Len(title) > 0 THEN title[1].text ELSE NoTitleFound,
         description    |-> IF Len(meta_desc) > 0 THEN meta_desc[1].text
                            ELSE NoDescriptionFound,
         headings       |-> ExtractHeadings(doc),
         content_length |-> Len(text_content),
         status_code    |-> status]

FailureResult(error) == [success |-> FALSE, error |-> error]

\* mutant: the ConnectionError clause written before the Timeout clause
HandleExceptionConnectionFirst(e) ==
    IF "ConnectionError" \in e.classes THEN FailureResult(ConnectionMessage)
    ELSE IF "Timeout" \in e.classes THEN FailureResult(TimeoutMessage)
    ELSE IF "HTTPError" \in e.classes
         THEN FailureResult(HTTPErrorPrefix \o IntToText(e.status))
    ELSE FailureResult(UnexpectedPrefix \o e.text)

\* the except clauses, tried in the order written; e.classes are the classes
\* the raised exception is an instance of
HandleException(e) ==
    IF "Timeout" \in e.classes THEN FailureResult(TimeoutMessage)
    ELSE IF "ConnectionError" \in e.classes THEN FailureResult(ConnectionMessage)
    ELSE IF "HTTPError" \in e.classes
         THEN FailureResult(HTTPErrorPrefix \o IntToText(e.status))
    ELSE FailureResult(UnexpectedPrefix \o e.text)

\* response.raise_for_status(): HTTPError for a 4xx or 5xx status
RaisesForStatus(status) == status >= 400 /\ status < 600

HTTPErrorOf(status) ==
    [classes |-> {"HTTPError", "RequestException", "Exception"},
     text |-> IntToText(status), status |-> status]

\* what the try block of scrape_website does with one outcome of the request:
\* an exception raised by session.get or by the parsing, or a response
ScrapeBody(outcome) ==
    IF outcome.kind = "raise" THEN HandleException(outcome.exc)
    ELSE IF RaisesForStatus(outcome.status)
         THEN HandleException(HTTPErrorOf(outcome.status))
    ELSE ScrapeSuccess(outcome.status, outcome.doc)

-----------------------------------------------------------------------------
(* The cache of scrape_website: @st.cache_data(ttl=3600), keyed by url *)
(* (_self is left out of the key by its leading underscore)            *)

\* mutant: no ttl
CacheValidForever(entry, t) == TRUE

\* an entry is served while it is younger than the ttl
CacheValid(entry, t) == t - entry.at < CacheTTL

\* the entries that answer a call for u at time t: zero or one
CacheLookup(c, u, t) ==
    IF DictHas(c, u) /\ CacheValid(DictGet(c, u), t)
    THEN <<DictGet(c, u)>>
    ELSE <<>>

\* the result of a computed call is stored under its url, with its time
\* mutant: only a successful result is kept
CacheStoreSuccessOnly(c, u, result, t) ==
    IF result.success THEN DictSet(c, u, [result |-> result, at |-> t]) ELSE c

CacheStore(c, u, result, t) == DictSet(c, u, [result |-> result, at |-> t])

-----------------------------------------------------------------------------
(* analyze_content *)

\* the keys of analysis_tasks, in the order of the dict literal
analysis_tasks ==
    <<"SEO Keywords", "Marketing Strategy", "Target Audience",
      "Value Proposition", "Call-to-Actions", "Business Type", "Content Themes">>

\* mutant: the fetch error reported in the format of a question's error
ErrorRecordFormatted(result) == <<<<"error", AnalysisErrorPrefix \o result.error>>>>

\* if not scrape_result['success']: return {"error": scrape_result['error']}
ErrorRecord(result) == <<<<"error", result.error>>>>

\* structured_content: the interpolated parts of the f-string
StructuredContent(result, u) ==
    [url         |-> u,
     title       |-> result.title,
     description |-> result.description,
     headings    |-> Join(result.headings, <<",", " ">>),
     content     |-> TruncateContent(result.content, ContentLimit)]

\* mutant: len(content), taken after content was cut
InitialResultsAfterCut(result, u) ==
    <<<<"URL", u>>, <<"Title", result.title>>,
      <<"Content_Length", Len(TruncateContent(result.content, ContentLimit))>>>>

\* mutant: the title is recorded only when the page has one
InitialResultsKnownTitle(result, u) ==
    IF result.title = NoTitleFound
    THEN <<<<"URL", u>>, <<"Content_Length", Len(result.content)>>>>
    ELSE <<<<"URL", u>>, <<"Title", result.title>>,
           <<"Content_Length", Len(result.content)>>>>

\* results = {"URL": url, "Title": title, "Content_Length": len(scrape_result['content'])}
InitialResults(result, u) ==
    <<<<"URL", u>>, <<"Title", result.title>>,
      <<"Content_Length", Len(result.content)>>>>

\* results[task_name] = response.choices[0].message.content.strip()
\* except Exception as e: results[task_name] = f"Analysis error: {str(e)}"
AnalysisValue(out) ==
    IF out.ok THEN Strip(out.text) ELSE AnalysisErrorPrefix \o out.text

\* mutant: no try/except around the request, a failure ends the loop
AnalysisLoopAborting(k, out) ==
    IF ~out.ok \/ k = Len(analysis_tasks) THEN "AnalysisReturned" ELSE "Analyzing"

\* mutant: a question's failure escapes to main's request-level failure
AnalysisLoopRequestFailing(k, out) ==
    IF ~out.ok THEN "FetchFailed"
    ELSE IF k = Len(analysis_tasks) THEN "AnalysisReturned" ELSE "Analyzing"

\* mutant: the loop never leaves its last iteration
AnalysisLoopNeverReturning(k, out) == "Analyzing"

\* for task_name, prompt in analysis_tasks.items(): ... return results
\* where the loop stands after question k got the outcome out
AnalysisLoopPc(k, out) ==
    IF k = Len(analysis_tasks) THEN "AnalysisReturned" ELSE "Analyzing"

-----------------------------------------------------------------------------
(* generate_recommendations *)

\* the keys of recommendation_areas, in the order of the dict literal
\* (each key's leading emoji is left out)
recommendation_areas ==
    <<"SEO Optimization", "Content Marketing", "User Experience",
      "Conversion Optimization">>

\* the characters of a dict key; a recommendation area starts with its emoji
KeyText(key) ==
    CASE key = "URL" ->
            <<"U","R","L">>
      [] key = "Title" ->
            <<"T","i","t","l","e">>
      [] key = "Content_Length" ->
            <<"C","o","n","t","e","n","t","_","L","e","n","g","t","h">>
      [] key = "error" ->
            <<"e","r","r","o","r">>
      [] key = "SEO Keywords" ->
            <<"S","E","O"," ","K","e","y","w","o","r","d","s">>
      [] key = "Marketing Strategy" ->
            <<"M","a","r","k","e","t","i","n","g"," ","S","t","r","a","t","e","g","y">>
      [] key = "Target Audience" ->
            <<"T","a","r","g","e","t"," ","A","u","d","i","e","n","c","e">>
      [] key = "Value Proposition" ->
            <<"V","a","l","u","e"," ","P","r","o","p","o","s","i","t","i","o","n">>
      [] key = "Call-to-Actions" ->
            <<"C","a","l","l","-","t","o","-","A","c","t","i","o","n","s">>
      [] key = "Business Type" ->
            <<"B","u","s","i","n","e","s","s"," ","T","y","p","e">>
      [] key = "Content Themes" ->
            <<"C","o","n","t","e","n","t"," ","T","h","e","m","e","s">>
      [] key = "SEO Optimization" ->
            <<"U+1F50D">> \o <<" ","S","E","O"," ","O","p","t","i","m","i","z","a","t","i","o","n">>
      [] key = "Content Marketing" ->
            <<"U+1F4DD">> \o <<" ","C","o","n","t","e","n","t"," ","M","a","r","k","e","t","i","n","g">>
      [] key = "User Experience" ->
            <<"U+1F4BC">> \o <<" ","U","s","e","r"," ","E","x","p","e","r","i","e","n","c","e">>
      [] key = "Conversion Optimization" ->
            <<"U+1F4C8">> \o <<" ","C","o","n","v","e","r","s","i","o","n"," ","O","p","t","i","m","i","z","a","t","i","o","n">>

\* the keys left out of the digest
DigestExcluded == {"URL", "Title", "Content_Length", "error"}

\* mutant: fields holding an error string are left out as well
AnalysisTextWithoutErrors(analysis) ==
    LET kept == SelectSeq(analysis,
                    LAMBDA kv : /\ kv[1] \notin DigestExcluded
                                /\ ~StartsWith(kv[2], AnalysisErrorPrefix))
    IN  Join([k \in 1..Len(kept) |->
                 KeyText(kept[k][1]) \o <<":", " ">> \o kept[k][2]],
             <<"\n">>)

\* analysis_text = "\n".join([f"{k}: {v}" for k, v in analysis.items()
\*                     if k not in ["URL", "Title", "Content_Length", "error"]])
AnalysisText(analysis) ==
    LET kept == SelectSeq(analysis, LAMBDA kv : kv[1] \notin DigestExcluded)
    IN  Join([k \in 1..Len(kept) |->
                 KeyText(kept[k][1]) \o <<":", " ">> \o kept[k][2]],
             <<"\n">>)

\* recommendations[area] = response.choices[0].message.content.strip()
\* except Exception as e: recommendations[area] = f"Error generating recommendations: {str(e)}"
RecommendationValue(out) ==
    IF out.ok THEN Strip(out.text) ELSE RecommendationErrorPrefix \o out.text

\* mutant: no try/except around the request, a failure ends the loop
RecommendationLoopAborting(k, out) ==
    IF ~out.ok \/ k = Len(recommendation_areas) THEN "Recommended"
    ELSE "Recommending"

\* for area, prompt in recommendation_areas.items(): ... return recommendations
\* where the loop stands after category k got the outcome out
RecommendationLoopPc(k, out) ==
    IF k = Len(recommendation_areas) THEN "Recommended" ELSE "Recommending"

-----------------------------------------------------------------------------
(* main *)

\* the values of example_sites, in the order of the dict literal
example_sites ==
    <<HttpsScheme \o <<"s","t","r","i","p","e",".","c","o","m">>,
      HttpsScheme \o <<"s","h","o","p","i","f","y",".","c","o","m">>,
      HttpsScheme \o <<"m","a","i","l","c","h","i","m","p",".","c","o","m">>,
      HttpsScheme \o <<"n","o","t","i","o","n",".","s","o">>>>

\* mutant: only the https:// prefix is recognised
ValidateURLHttpsOnly(u) ==
    IF StartsWith(u, HttpsScheme) THEN u ELSE HttpsScheme \o u

\* mutant: the scheme prepended is http://
ValidateURLPlainHttp(u) ==
    IF StartsWith(u, HttpScheme) \/ StartsWith(u, HttpsScheme)
    THEN u
    ELSE HttpScheme \o u

\* if not url.startswith(('http://', 'https://')): url = 'https://' + url
ValidateURL(u) ==
    IF StartsWith(u, HttpScheme) \/ StartsWith(u, HttpsScheme)
    THEN u
    ELSE HttpsScheme \o u

\* mutant: the key misspelt
RequestFailedMisspelt(analysis) == DictHas(analysis, "Error")

\* if "error" in analysis_results:
RequestFailed(analysis) == DictHas(analysis, "error")

\* 'AI Marketing Analyzer - Shaun Alphonso Portfolio'
AnalyzedBy ==
    <<"A","I"," ","M","a","r","k","e","t","i","n","g"," ","A","n","a","l",
      "y","z","e","r"," ","-"," ","S","h","a","u","n"," ","A","l","p","h",
      "o","n","s","o"," ","P","o","r","t","f","o","l","i","o">>

\* '2.0 - Streamlit Optimized'
ToolVersion ==
    <<"2",".","0"," ","-"," ","S","t","r","e","a","m","l","i","t"," ","O",
      "p","t","i","m","i","z","e","d">>

\* two decimal digits, as %H, %M and %S write them
Pad2(n) == IntToText((n \div 10) % 10) \o IntToText(n % 10)

\* time.strftime("%Y-%m-%d %H:%M:%S UTC") at second t of the session's day;
\* the model's clock starts at midnight and the day is written 1970-01-01
StrfTime(t) ==
    <<"1","9","7","0","-","0","1","-","0","1"," ">>
        \o Pad2((t \div 3600) % 24) \o <<":">> \o Pad2((t \div 60) % 60)
        \o <<":">> \o Pad2(t % 60) \o <<" ","U","T","C">>

\* mutant: the title is moved out of the analysis record into website_title
ExportDataTitleMoved(u, analysis, recs, t) ==
    [built              |-> TRUE,
     website_url        |-> u,
     website_title      |-> IF DictHas(analysis, "Title")
                            THEN DictGet(analysis, "Title") ELSE <<>>,
     analysis_results   |-> SelectSeq(analysis, LAMBDA kv : kv[1] # "Title"),
     recommendations    |-> recs,
     analysis_timestamp |-> StrfTime(t),
     analyzed_by        |-> AnalyzedBy,
     tool_version       |-> ToolVersion]

\* export_data; analysis_results.get("Title", "") for website_title
ExportData(u, analysis, recs, t) ==
    [built              |-> TRUE,
     website_url        |-> u,
     website_title      |-> IF DictHas(analysis, "Title")
                            THEN DictGet(analysis, "Title") ELSE <<>>,
     analysis_results   |-> analysis,
     recommendations    |-> recs,
     analysis_timestamp |-> StrfTime(t),
     analyzed_by        |-> AnalyzedBy,
     tool_version       |-> ToolVersion]

-----------------------------------------------------------------------------
(* json.dumps(export_data, indent=2), and the parsing back of its text *)

\* the printable ASCII characters, chr(32) to chr(126), in order (the grave
\* accent, chr(96), is written as the name of its code point)
Ascii ==
    <<" ","!","\"","#","$","%","&","'","(",")","*","+",",","-",".","/","0",
      "1","2","3","4","5","6","7","8","9",":",";","<","=",">","?","@","A",
      "B","C","D","E","F","G","H","I","J","K","L","M","N","O","P","Q","R",
      "S","T","U","V","W","X","Y","Z","[","\\","]","^","_","U+0060","a","b","c",
      "d","e","f","g","h","i","j","k","l","m","n","o","p","q","r","s","t",
      "u","v","w","x","y","z","{","|","}","~">>

\* characters outside ASCII, each written as the name of its code point
NonAscii == {"U+00E9", "U+1F50D", "U+1F4DD", "U+1F4BC", "U+1F4C8"}

\* ord(c)
Ord(c) ==
    CASE c = "\t" -> 9
      [] c = "\n" -> 10
      [] c = "U+00E9" -> 233
      [] c = "U+1F50D" -> 128269
      [] c = "U+1F4DD" -> 128221
      [] c = "U+1F4BC" -> 128188
      [] c = "U+1F4C8" -> 128200
      [] OTHER -> 31 + CHOOSE i \in 1..Len(Ascii) : Ascii[i] = c

\* chr(n)
Chr(n) ==
    IF n >= 32 /\ n <= 126 THEN Ascii[n - 31]
    ELSE CHOOSE c \in {"\t", "\n"} \cup NonAscii : Ord(c) = n

HexDigits == <<"0","1","2","3","4","5","6","7","8","9","a","b","c","d","e","f">>

\* '{0:04x}'.format(n)
Hex4(n) ==
    <<HexDigits[((n \div 4096) % 16) + 1], HexDigits[((n \div 256) % 16) + 1],
      HexDigits[((n \div 16) % 16) + 1], HexDigits[(n % 16) + 1]>>

\* the value of a hexadecimal digit, of either case
HexValue(c) ==
    CASE c = "A" -> 10 [] c = "B" -> 11 [] c = "C" -> 12
      [] c = "D" -> 13 [] c = "E" -> 14 [] c = "F" -> 15
      [] OTHER -> (CHOOSE i \in 1..Len(HexDigits) : HexDigits[i] = c) - 1

\* json.encoder.py_encode_basestring_ascii, one character: the quote and the
\* backslash get a backslash, control characters their short escape, and
\* whatever is not printable ASCII \uXXXX (a surrogate pair beyond U+FFFF)
EscapeChar(c) ==
    LET n == Ord(c)
        v == n - 65536
    IN  CASE c = "\"" -> <<"\\", "\"">>
          [] c = "\\" -> <<"\\", "\\">>
          [] c = "\n" -> <<"\\", "n">>
          [] c = "\t" -> <<"\\", "t">>
          [] n >= 32 /\ n <= 126 /\ c \notin {"\"", "\\"} -> <<c>>
          [] n > 126 /\ n < 65536 -> <<"\\", "u">> \o Hex4(n)
          [] n >= 65536 ->
                <<"\\", "u">> \o Hex4(55296 + ((v \div 1024) % 1024))
                    \o <<"\\", "u">> \o Hex4(56320 + (v % 1024))

\* '"' + escaped characters + '"'
JsonString(s) ==
    <<"\"">> \o Flatten([i \in 1..Len(s) |-> EscapeChar(s[i])]) \o <<"\"">>

\* the values json.dumps meets in export_data: str, int, dict
JStr(s) == [type |-> "str", s |-> s]
JInt(n) == [type |-> "int", n |-> n]
JObj(items) == [type |-> "obj", items |-> items]

\* indent=2: a new line and two spaces per level
NewlineIndent(level) == <<"\n">> \o [i \in 1..(2 * level) |-> " "]

\* json.dumps(v, indent=2) for the value v at nesting depth level
RECURSIVE JsonDumps(_, _)
JsonDumps(v, level) ==
    CASE v.type = "str" -> JsonString(v.s)
      [] v.type = "int" -> IntToText(v.n)
      [] v.type = "obj" ->
            IF Len(v.items) = 0 THEN <<"{", "}">>
            ELSE <<"{">> \o NewlineIndent(level + 1)
                   \o Join([k \in 1..Len(v.items) |->
                              JsonString(v.items[k][1]) \o <<":", " ">>
                                  \o JsonDumps(v.items[k][2], level + 1)],
                           <<",">> \o NewlineIndent(level + 1))
                   \o NewlineIndent(level) \o <<"}">>

\* a dict as json.dumps sees it: str keys, str values, the int of Content_Length
DictJson(d) ==
    [k \in 1..Len(d) |->
        <<KeyText(d[k][1]),
          IF d[k][1] = "Content_Length" THEN JInt(d[k][2]) ELSE JStr(d[k][2])>>]

\* export_data as json.dumps sees it, its keys in the order of the literal
ExportJson(e) ==
    JObj(<< <<<<"w","e","b","s","i","t","e","_","u","r","l">>, JStr(e.website_url)>>,
            <<<<"w","e","b","s","i","t","e","_","t","i","t","l","e">>, JStr(e.website_title)>>,
            <<<<"a","n","a","l","y","s","i","s","_","r","e","s","u","l","t","s">>,
              JObj(DictJson(e.analysis_results))>>,
            <<<<"r","e","c","o","m","m","e","n","d","a","t","i","o","n","s">>,
              JObj(DictJson(e.recommendations))>>,
            <<<<"a","n","a","l","y","s","i","s","_","t","i","m","e","s","t","a","m","p">>,
              JStr(e.analysis_timestamp)>>,
            <<<<"a","n","a","l","y","z","e","d","_","b","y">>, JStr(e.analyzed_by)>>,
            <<<<"t","o","o","l","_","v","e","r","s","i","o","n">>, JStr(e.tool_version)>> >>)

\* data=json.dumps(export_data, indent=2)
DownloadData(e) == JsonDumps(ExportJson(e), 0)

(* json.loads: the reader of the downloaded file *)

JsonWhitespace == {" ", "\t", "\n"}

RECURSIVE SkipWhitespace(_, _)
SkipWhitespace(s, i) ==
    IF i <= Len(s) /\ s[i] \in JsonWhitespace THEN SkipWhitespace(s, i + 1) ELSE i

\* the number written by the four hexadecimal digits at s[i..i+3]
Hex4Value(s, i) ==
    HexValue(s[i]) * 4096 + HexValue(s[i + 1]) * 256
        + HexValue(s[i + 2]) * 16 + HexValue(s[i + 3])

\* the character a short escape stands for
Unescape(e) ==
    CASE e = "n" -> "\n"
      [] e = "t" -> "\t"
      [] OTHER -> e

\* json.decoder.py_scanstring: the string whose first character is s[i],
\* read up to its closing quote; acc is what was read so far
RECURSIVE ScanString(_, _, _)
ScanString(s, i, acc) ==
    IF s[i] = "\"" THEN [val |-> acc, next |-> i + 1]
    ELSE IF s[i] # "\\" THEN ScanString(s, i + 1, Append(acc, s[i]))
    ELSE IF s[i + 1] # "u"
         THEN ScanString(s, i + 2, Append(acc, Unescape(s[i + 1])))
    ELSE LET hi == Hex4Value(s, i + 2)
             paired == /\ hi >= 55296 /\ hi <= 56319
                       /\ i + 11 <= Len(s)
                       /\ s[i + 6] = "\\" /\ s[i + 7] = "u"
                       /\ Hex4Value(s, i + 8) >= 56320
                       /\ Hex4Value(s, i + 8) <= 57343
         IN  IF paired
             THEN ScanString(s, i + 12,
                      Append(acc, Chr(65536 + (hi - 55296) * 1024
                                          + (Hex4Value(s, i + 8) - 56320))))
             ELSE ScanString(s, i + 6, Append(acc, Chr(hi)))

Digits == {"0","1","2","3","4","5","6","7","8","9"}

\* the natural number whose digits start at s[i]; n is the value so far
RECURSIVE ScanDigits(_, _, _)
ScanDigits(s, i, n) ==
    IF i <= Len(s) /\ s[i] \in Digits
    THEN ScanDigits(s, i + 1, 10 * n + HexValue(s[i]))
    ELSE [val |-> JInt(n), next |-> i]

\* json.scanner / JSONObject: the value that starts at s[i], and the members
\* of an object from the key that starts at s[i]; a repeated key keeps its
\* place and takes the later value, as a dict does
RECURSIVE ParseValue(_, _)
RECURSIVE ParseMembers(_, _, _)
ParseValue(s, i) ==
    CASE s[i] = "\"" ->
            LET r == ScanString(s, i + 1, <<>>)
            IN  [val |-> JStr(r.val), next |-> r.next]
      [] s[i] = "{" ->
            LET j == SkipWhitespace(s, i + 1)
            IN  IF s[j] = "}" THEN [val |-> JObj(<<>>), next |-> j + 1]
                ELSE ParseMembers(s, j, <<>>)
      [] OTHER -> ScanDigits(s, i, 0)

ParseMembers(s, i, items) ==
    LET key   == ScanString(s, i + 1, <<>>)
        colon == SkipWhitespace(s, key.next)
        value == ParseValue(s, SkipWhitespace(s, colon + 1))
        after == SkipWhitespace(s, value.next)
        more  == DictSet(items, key.val, value.val)
    IN  IF s[after] = ","
        THEN ParseMembers(s, SkipWhitespace(s, after + 1), more)
        ELSE [val |-> JObj(more), next |-> after + 1]

\* json.loads(s)
JsonLoads(s) == ParseValue(s, SkipWhitespace(s, 1)).val


-----------------------------------------------------------------------------
(* The environment: the user, the web, the completion service, the clock *)

\* seconds the clock advances in one tick
TickStep == 1800

\* time.sleep(1): the seconds main waits after each of its steps
StepPause == 1

\* 'example.com'
ExampleCom ==
    <<"e","x","a","m","p","l","e",".","c","o","m">>

\* what the user types into the text box
TypedInputs ==
    { <<>>,
      ExampleCom,
      HttpsScheme \o ExampleCom,
      HttpScheme \o ExampleCom }

\* pages the web serves
DocHome ==
    << [tag |-> "title",  text |-> <<"H","o","m","e">>],
       [tag |-> "meta",   text |-> <<"A"," ","s","h","o","p">>],
       [tag |-> "script", text |-> <<"x","=","1">>],
       [tag |-> "h2",     text |-> <<" ","A","b","o","u","t","\n">>],
       [tag |-> "h1",     text |-> <<"\n","W","e","l","c","o","m","e"," "," ">>],
       [tag |-> "p",      text |-> <<"H","i","\t","a","l","l"," ","\n"," ","y","o","u">>],
       [tag |-> "nav",    text |-> <<"M","e","n","u">>] >>

DocPlain ==
    << [tag |-> "p",
        text |-> <<"W","e","l","c","o","m","e"," ","\n"," "," ","H","o","m","e",
                   " "," "," ","A","b","o","u","t","\n">>] >>

\* a page whose visible text has n characters, single spaces between words
LongText(n) == [i \in 1..n |-> IF i % 5 = 3 THEN " " ELSE "x"]
LongDoc(n) ==
    << [tag |-> "script", text |-> <<"x">>], [tag |-> "p", text |-> LongText(n)] >>

NoDoc == << >>
NoException == [classes |-> {}, text |-> <<>>, status |-> 0]

\* exceptions session.get or the parsing may raise, with the classes each is
\* an instance of (requests.exceptions) and its str()
ReadTimeout ==
    [classes |-> {"ReadTimeout", "Timeout", "RequestException", "Exception"},
     text |-> <<"r","e","a","d">>, status |-> 0]
ConnectTimeout ==
    [classes |-> {"ConnectTimeout", "ConnectionError", "Timeout",
                  "RequestException", "Exception"},
     text |-> <<"c","o","n","n","e","c","t">>, status |-> 0]
ConnectionError ==
    [classes |-> {"ConnectionError", "RequestException", "Exception"},
     text |-> <<"r","e","f","u","s","e","d">>, status |-> 0]
ParserError ==
    [classes |-> {"ValueError", "Exception"},
     text |-> <<"b","a","d">>, status |-> 0]

Raised(e) == [kind |-> "raise", exc |-> e, status |-> 0, doc |-> NoDoc]
Responded(status, doc) ==
    [kind |-> "response", exc |-> NoException, status |-> status, doc |-> doc]

NoOutcome == [kind |-> "none", exc |-> NoException, status |-> 0, doc |-> NoDoc]

\* outcomes of one request of the pipeline
NetOutcomes ==
    { Raised(ReadTimeout), Raised(ConnectTimeout), Raised(ConnectionError),
      Raised(ParserError),
      Responded(404, DocHome), Responded(503, NoDoc),
      Responded(200, DocHome), Responded(200, DocPlain) }

\* the answer the completion service gives to question k of a battery, with
\* and without surrounding whitespace; or the exception the call raises
RawAnswers(k) ==
    { <<"a">> \o IntToText(k),
      <<" ", "\n">> \o <<"a">> \o IntToText(k) \o <<" ", "\t", "\n">> }
CompletionFailures == { <<"q","u","o","t","a">> }
CompletionOutcomes(k, mayFail) ==
    {[ok |-> TRUE, text |-> t] : t \in RawAnswers(k)}
        \cup (IF mayFail
              THEN {[ok |-> FALSE, text |-> t] : t \in CompletionFailures}
              ELSE {})

-----------------------------------------------------------------------------
(* State *)

NoResult == [none |-> TRUE]
NoContent ==
    [url |-> <<>>, title |-> <<>>, description |-> <<>>, headings |-> <<>>,
     content |-> <<>>]
NoExport == [built |-> FALSE]
NoNorm == [stage |-> "idle", x |-> <<>>, limit |-> 0, once |-> <<>>, twice |-> <<>>]
NoRoundTrip == [stage |-> "idle", data |-> <<>>, parsed |-> JObj(<<>>)]
Shown(kind, text) == [kind |-> kind, text |-> text]

\* a session with a failing completion service is followed for one request
RunLimit == IF faults THEN 1 ELSE MaxRuns

\* the script has ended and waits for the user
Waiting == pc \in {"Idle", "Done", "FetchFailed"}

PipelineInit ==
    /\ pc = "Idle"
    /\ text_input = <<>>
    /\ example_url = <<>>
    /\ url = <<>>
    /\ now = 0
    /\ cache = <<>>
    /\ netCalls = 0
    /\ scrapeLog = <<>>
    /\ scrape_result = NoResult
    /\ structured_content = NoContent
    /\ analysis_results = <<>>
    /\ recommendations = <<>>
    /\ task = 0
    /\ calls = <<>>
    /\ export_data = NoExport
    /\ message = Shown("welcome", <<>>)
    /\ runs = 0
    /\ ticks = 0
    /\ analysis_text = <<>>

Init ==
    /\ PipelineInit
    /\ faults \in BOOLEAN
    /\ norm = NoNorm
    /\ roundtrip = NoRoundTrip

-----------------------------------------------------------------------------
(* main: one script run, from the widgets to the start of the pipeline *)

\* mutant: the stored selection is read and never removed
StartRunKeepingSelection(widget_url, analyze_button) ==
    LET has_example == Len(example_url) > 0
        u      == IF has_example THEN example_url ELSE widget_url
        button == has_example \/ analyze_button
    IN  /\ example_url' = example_url
        /\ scrape_result' = NoResult
        /\ structured_content' = NoContent
        /\ analysis_results' = <<>>
        /\ recommendations' = <<>>
        /\ task' = 0
        /\ calls' = <<>>
        /\ export_data' = NoExport
        /\ analysis_text' = <<>>
        /\ IF button /\ Len(u) > 0
           THEN /\ url' = ValidateURL(u)
                /\ pc' = "Fetching"
                /\ message' = Shown("progress", <<>>)
           ELSE /\ url' = u
                /\ pc' = "Idle"
                /\ message' = IF button THEN Shown("warning", <<>>)
                              ELSE Shown("welcome", <<>>)

\* lines 350-360 and 505-510: the example selection, the trigger, the URL
StartRun(widget_url, analyze_button) ==
    LET has_example == Len(example_url) > 0
        u      == IF has_example THEN example_url ELSE widget_url
        button == has_example \/ analyze_button
    IN  /\ example_url' = <<>>
        /\ scrape_result' = NoResult
        /\ structured_content' = NoContent
        /\ analysis_results' = <<>>
        /\ recommendations' = <<>>
        /\ task' = 0
        /\ calls' = <<>>
        /\ export_data' = NoExport
        /\ analysis_text' = <<>>
        /\ IF button /\ Len(u) > 0
           THEN /\ url' = ValidateURL(u)
                /\ pc' = "Fetching"
                /\ message' = Shown("progress", <<>>)
           ELSE /\ url' = u
                /\ pc' = "Idle"
                /\ message' = IF button THEN Shown("warning", <<>>)
                              ELSE Shown("welcome", <<>>)

\* the user enters a URL and presses "Analyze Website"
ClickAnalyze ==
    /\ Waiting
    /\ runs < RunLimit
    /\ \E t \in TypedInputs :
          /\ text_input' = t
          /\ StartRun(t, TRUE)
    /\ runs' = runs + 1
    /\ UNCHANGED <<now, cache, netCalls, scrapeLog, ticks, faults, norm,
                   roundtrip>>

\* the user presses an example button: the selection is stored, st.rerun()
ClickExample ==
    /\ Waiting
    /\ runs < RunLimit
    /\ \E k \in 1..Len(example_sites) :
          /\ k <= MaxExamples
          /\ example_url' = example_sites[k]
    /\ pc' = "Rerun"
    /\ runs' = runs + 1
    /\ UNCHANGED <<text_input, url, now, cache, netCalls, scrapeLog, scrape_result,
                   structured_content, analysis_results, recommendations, task,
                   calls, export_data, message, ticks, faults, norm,
                   roundtrip, analysis_text>>

\* the rerun after an example button: no button of this run is pressed
Rerun ==
    /\ pc = "Rerun"
    /\ StartRun(text_input, FALSE)
    /\ UNCHANGED <<text_input, now, cache, netCalls, scrapeLog, runs, ticks,
                   faults, norm, roundtrip>>

\* the script runs again with no trigger pressed, as Streamlit does on any
\* other interaction (the text field edited, a download button pressed)
RunAgain ==
    /\ Waiting
    /\ runs < RunLimit
    /\ StartRun(text_input, FALSE)
    /\ runs' = runs + 1
    /\ UNCHANGED <<text_input, now, cache, netCalls, scrapeLog, ticks, faults,
                   norm, roundtrip>>

\* time passes between two requests
Tick ==
    /\ Waiting
    /\ runs < RunLimit
    /\ now < MaxClock
    /\ now' = now + TickStep
    /\ ticks' = ticks + 1
    /\ UNCHANGED <<pc, text_input, example_url, url, cache, netCalls, scrapeLog,
                   scrape_result, structured_content, analysis_results,
                   recommendations, task, calls, export_data, message, runs,
                   faults, norm, roundtrip, analysis_text>>

-----------------------------------------------------------------------------
(* The pipeline of one request *)

\* line 375: scrape_website(url), through its cache
ScrapeWebsite ==
    /\ pc = "Fetching"
    /\ LET hit == CacheLookup(cache, url, now)
       IN  IF Len(hit) > 0
           THEN /\ scrape_result' = hit[1].result
                /\ scrapeLog' = Append(scrapeLog,
                       [url |-> url, at |-> now, network |-> FALSE,
                        cause |-> NoOutcome, result |-> hit[1].result])
                /\ UNCHANGED <<cache, netCalls>>
           ELSE \E outcome \in NetOutcomes :
                /\ scrape_result' = ScrapeBody(outcome)
                /\ cache' = CacheStore(cache, url, ScrapeBody(outcome), now)
                /\ netCalls' = netCalls + 1
                /\ scrapeLog' = Append(scrapeLog,
                       [url |-> url, at |-> now, network |-> TRUE,
                        cause |-> outcome, result |-> ScrapeBody(outcome)])
    /\ pc' = "Scraped"
    /\ UNCHANGED <<text_input, example_url, url, now, structured_content,
                   analysis_results, recommendations, task, calls, export_data,
                   message, runs, ticks, faults, norm,
                   roundtrip, analysis_text>>

\* where the script stands once a time.sleep(1) of main has returned: line
\* 376 after scrape_website, line 389 after the test of line 384, line 400
\* after "Step 4: Analysis complete"
AfterSleep(at) ==
    CASE at = "Scraped" -> "Step2"
      [] at = "Analyzed" -> "Step3"
      [] at = "Recommended" -> "Reporting"

\* lines 376, 389, 400: time.sleep(1); the clock moves, nothing else does
Sleep ==
    /\ pc \in {"Scraped", "Analyzed", "Recommended"}
    /\ now' = now + StepPause
    /\ pc' = AfterSleep(pc)
    /\ UNCHANGED <<text_input, example_url, url, cache, netCalls, scrapeLog,
                   scrape_result, structured_content, analysis_results,
                   recommendations, task, calls, export_data, message, runs,
                   ticks, faults, norm, roundtrip, analysis_text>>

\* lines 378-382 and 182-222: analyze_content up to its loop
AnalyzeContentBegin ==
    /\ pc = "Step2"
    /\ IF ~scrape_result.success
       THEN /\ analysis_results' = ErrorRecord(scrape_result)
            /\ pc' = "AnalysisReturned"
            /\ UNCHANGED <<structured_content, task>>
       ELSE /\ structured_content' = StructuredContent(scrape_result, url)
            /\ analysis_results' = InitialResults(scrape_result, url)
            /\ task' = 1
            /\ pc' = "Analyzing"
    /\ UNCHANGED <<text_input, example_url, url, now, cache, netCalls, scrapeLog,
                   scrape_result, recommendations, calls, export_data, message,
                   runs, ticks, faults, norm, roundtrip, analysis_text>>

\* the completion request of one question, as the trace records it
AnalysisCall(k, out) ==
    [battery |-> "analysis", key |-> analysis_tasks[k], max_tokens |-> 200,
     content_length |-> Len(structured_content.content), ok |-> out.ok]

\* mutant: a failed question is asked again
AnalyzeTaskRetrying ==
    /\ pc = "Analyzing"
    /\ task <= Len(analysis_tasks)
    /\ \E out \in CompletionOutcomes(task, faults) :
          /\ analysis_results' =
                DictSet(analysis_results, analysis_tasks[task], AnalysisValue(out))
          /\ calls' = Append(calls, AnalysisCall(task, out))
          /\ pc' = IF out.ok THEN AnalysisLoopPc(task, out) ELSE "Analyzing"
          /\ task' = IF out.ok THEN task + 1 ELSE task
    /\ UNCHANGED <<text_input, example_url, url, now, cache, netCalls, scrapeLog,
                   scrape_result, structured_content, recommendations, export_data,
                   message, runs, ticks, faults, norm,
                   roundtrip, analysis_text>>

\* lines 224-243: one iteration of the loop; the last one returns results
AnalyzeTask ==
    /\ pc = "Analyzing"
    /\ task <= Len(analysis_tasks)
    /\ \E out \in CompletionOutcomes(task, faults) :
          /\ analysis_results' =
                DictSet(analysis_results, analysis_tasks[task], AnalysisValue(out))
          /\ calls' = Append(calls, AnalysisCall(task, out))
          /\ pc' = AnalysisLoopPc(task, out)
    /\ task' = task + 1
    /\ UNCHANGED <<text_input, example_url, url, now, cache, netCalls, scrapeLog,
                   scrape_result, structured_content, recommendations, export_data,
                   message, runs, ticks, faults, norm,
                   roundtrip, analysis_text>>

\* lines 384-387: the request-level failure branch, which returns from main
CheckAnalysis ==
    /\ pc = "AnalysisReturned"
    /\ IF RequestFailed(analysis_results)
       THEN /\ message' = Shown("error", DictGet(analysis_results, "error"))
            /\ pc' = "FetchFailed"
       ELSE /\ pc' = "Analyzed"
            /\ UNCHANGED message
    /\ UNCHANGED <<text_input, example_url, url, now, cache, netCalls, scrapeLog,
                   scrape_result, structured_content, analysis_results,
                   recommendations, task, calls, export_data, runs, ticks,
                   faults, norm, roundtrip, analysis_text>>

\* lines 391-395 and 245-259: generate_recommendations up to its loop, which
\* starts with its digest of the analysis
GenerateRecommendationsBegin ==
    /\ pc = "Step3"
    /\ analysis_text' = AnalysisText(analysis_results)
    /\ recommendations' = <<>>
    /\ task' = 1
    /\ pc' = "Recommending"
    /\ UNCHANGED <<text_input, example_url, url, now, cache, netCalls, scrapeLog,
                   scrape_result, structured_content, analysis_results, calls,
                   export_data, message, runs, ticks, faults, norm, roundtrip>>

RecommendationCall(k, out) ==
    [battery |-> "recommendation", key |-> recommendation_areas[k],
     max_tokens |-> 350, content_length |-> Len(analysis_text), ok |-> out.ok]

\* lines 261-280: one iteration of the loop; the last one returns
RecommendTask ==
    /\ pc = "Recommending"
    /\ task <= Len(recommendation_areas)
    /\ \E out \in CompletionOutcomes(task, faults) :
          /\ recommendations' =
                DictSet(recommendations, recommendation_areas[task],
                        RecommendationValue(out))
          /\ calls' = Append(calls, RecommendationCall(task, out))
          /\ pc' = RecommendationLoopPc(task, out)
    /\ task' = task + 1
    /\ UNCHANGED <<text_input, example_url, url, now, cache, netCalls, scrapeLog,
                   scrape_result, structured_content, analysis_results,
                   export_data, message, runs, ticks, faults, norm,
                   roundtrip, analysis_text>>

\* lines 402-464: the report and the export bundle, stamped with the clock
\* as line 461 reads it
ShowReport ==
    /\ pc = "Reporting"
    /\ export_data' = ExportData(url, analysis_results, recommendations, now)
    /\ message' = Shown("report", <<>>)
    /\ pc' = "Done"
    /\ UNCHANGED <<text_input, example_url, url, now, cache, netCalls, scrapeLog,
                   scrape_result, structured_content, analysis_results,
                   recommendations, task, calls, runs, ticks, faults, norm,
                   roundtrip, analysis_text>>

Next ==
    \/ ClickAnalyze
    \/ ClickExample
    \/ Rerun
    \/ RunAgain
    \/ Tick
    \/ ScrapeWebsite
    \/ Sleep
    \/ AnalyzeContentBegin
    \/ AnalyzeTask
    \/ CheckAnalysis
    \/ GenerateRecommendationsBegin
    \/ RecommendTask
    \/ ShowReport

Spec == Init /\ [][Next]_vars

\* A session in which completion requests may fail, followed to the end of
\* its request. The script runs on by itself: the fetch returns or raises
\* within its timeout, every completion request returns or raises, and the
\* steps between them are straight-line code; only the user's actions and
\* the passing of time between requests may never happen.
InitFaulty ==
    /\ PipelineInit
    /\ faults = TRUE
    /\ norm = NoNorm
    /\ roundtrip = NoRoundTrip

ScriptProgress ==
    /\ WF_vars(Rerun)
    /\ WF_vars(ScrapeWebsite)
    /\ WF_vars(Sleep)
    /\ WF_vars(AnalyzeContentBegin)
    /\ WF_vars(AnalyzeTask)
    /\ WF_vars(CheckAnalysis)
    /\ WF_vars(GenerateRecommendationsBegin)
    /\ WF_vars(RecommendTask)
    /\ WF_vars(ShowReport)

SpecFaulty == InitFaulty /\ [][Next]_vars /\ ScriptProgress

-----------------------------------------------------------------------------
(* analyze_content on its own: every FetchResult scrape_website can return, *)
(* page texts around the content limit included                             *)

\* lengths of page text around the limit, and one beyond limit plus marker
LongLengths ==
    ((ContentLimit - 1)..(ContentLimit + MaxExcess))
        \cup {ContentLimit + Len(TruncationMarker) + 1}

AnalyzeOutcomes ==
    NetOutcomes \cup {Responded(200, LongDoc(n)) : n \in LongLengths}

\* main at line 379 in the first run of a session: a typed URL was requested,
\* scrape_website went to the network and stored its result, the wait of
\* line 376 is over and analyze_content is about to be called
InitAnalyze ==
    /\ pc = "Step2"
    /\ text_input \in TypedInputs \ {<<>>}
    /\ example_url = <<>>
    /\ url = ValidateURL(text_input)
    /\ now = StepPause
    /\ netCalls = 1
    /\ \E outcome \in AnalyzeOutcomes :
          /\ scrape_result = ScrapeBody(outcome)
          /\ scrapeLog = <<[url |-> url, at |-> now - StepPause,
                            network |-> TRUE, cause |-> outcome,
                            result |-> scrape_result]>>
    /\ cache = CacheStore(<<>>, url, scrape_result, now - StepPause)
    /\ structured_content = NoContent
    /\ analysis_results = <<>>
    /\ recommendations = <<>>
    /\ task = 0
    /\ calls = <<>>
    /\ export_data = NoExport
    /\ message = Shown("progress", <<>>)
    /\ runs = 1
    /\ ticks = 0
    /\ faults = TRUE
    /\ norm = NoNorm
    /\ roundtrip = NoRoundTrip
    /\ analysis_text = <<>>

NextAnalyze ==
    \/ AnalyzeContentBegin
    \/ AnalyzeTask

SpecAnalyze == InitAnalyze /\ [][NextAnalyze]_vars

-----------------------------------------------------------------------------
(* normalize(x, L) on its own, applied once and once more to its output *)

Alphabet == {"a", " ", "\t", "\n"}
Texts(n) == UNION {[1..k -> Alphabet] : k \in 0..n}

\* raw long texts: clean ones, and one with whitespace to clean up
LongInputs ==
    {LongText(n) : n \in LongLengths}
        \cup {<<" ", "\n">> \o LongText(ContentLimit + 1) \o <<" ", " ", " ", "y", "\t">>}

NormInput(x, limit) ==
    [stage |-> "input", x |-> x, limit |-> limit, once |-> <<>>, twice |-> <<>>]

InitNormalize ==
    /\ PipelineInit
    /\ faults = FALSE
    /\ roundtrip = NoRoundTrip
    /\ \/ \E x \in Texts(MaxLen), limit \in 0..MaxLimit : norm = NormInput(x, limit)
       \/ \E x \in LongInputs : norm = NormInput(x, ContentLimit)

NormalizeOnce ==
    /\ norm.stage = "input"
    /\ norm' = [norm EXCEPT !.stage = "once",
                            !.once = Normalize(norm.x, norm.limit)]
    /\ UNCHANGED <<pipelineVars, roundtrip>>

NormalizeTwice ==
    /\ norm.stage = "once"
    /\ norm' = [norm EXCEPT !.stage = "twice",
                            !.twice = Normalize(norm.once, norm.limit)]
    /\ UNCHANGED <<pipelineVars, roundtrip>>

NextNormalize ==
    \/ NormalizeOnce
    \/ NormalizeTwice

SpecNormalize == InitNormalize /\ [][NextNormalize]_vars

-----------------------------------------------------------------------------
(* The export: the bundle of a finished request, its JSON download, and the *)
(* download read back                                                       *)

\* a page whose title holds quotes, a backslash, line breaks and an accent
DocQuoted ==
    << [tag |-> "title", text |-> <<"\n","A"," ","\"","B","\""," ","\\"," ","U+00E9","\t">>],
       [tag |-> "h1",    text |-> <<" ","Q","&","A","\n">>],
       [tag |-> "p",     text |-> <<"x"," "," ","y","\n","\n","z">>] >>

ExportDocs == {DocHome, DocPlain, DocQuoted}

\* completion outcomes whose text is delicate to write as JSON: quotes,
\* backslashes, a written-out escape, line breaks inside, characters outside
\* ASCII, an answer that is empty once stripped, JSON as the answer, a failure
ExportOutcomes ==
    { [ok |-> TRUE,  text |-> <<" ","s","a","y"," ","\"","h","i","\"","\n">>],
      [ok |-> TRUE,  text |-> <<"a","\\","n","\"","b">>],
      [ok |-> TRUE,  text |-> <<"l","1","\n","\t","l","2">>],
      [ok |-> TRUE,  text |-> <<"c","a","f","U+00E9"," ","U+1F4C8">>],
      [ok |-> TRUE,  text |-> <<"\\","u","0","0","4","1">>],
      [ok |-> TRUE,  text |-> <<" ">>],
      [ok |-> TRUE,  text |-> <<"{","\"","k","\"",":"," ","1","}">>],
      [ok |-> FALSE, text |-> <<"q","u","o","t","a">>] }

\* the outcome of question k when the odd questions got a, the even ones b
Alternate(k, a, b) == IF k % 2 = 1 THEN a ELSE b

InitExport ==
    /\ pc = "Reporting"
    /\ text_input = ExampleCom
    /\ example_url = <<>>
    /\ url = ValidateURL(ExampleCom)
    /\ now \in {3 * StepPause, TickStep + 3 * StepPause}
    /\ netCalls = 1
    /\ \E doc \in ExportDocs :
          /\ scrape_result = ScrapeSuccess(200, doc)
          /\ scrapeLog = <<[url |-> url, at |-> now - 3 * StepPause,
                            network |-> TRUE,
                            cause |-> Responded(200, doc),
                            result |-> scrape_result]>>
    /\ cache = CacheStore(<<>>, url, scrape_result, now - 3 * StepPause)
    /\ structured_content = StructuredContent(scrape_result, url)
    /\ \E a \in ExportOutcomes, b \in ExportOutcomes, c \in ExportOutcomes :
          /\ analysis_results =
                InitialResults(scrape_result, url)
                    \o [k \in 1..Len(analysis_tasks) |->
                          <<analysis_tasks[k], AnalysisValue(Alternate(k, a, b))>>]
          /\ recommendations =
                [k \in 1..Len(recommendation_areas) |->
                    <<recommendation_areas[k],
                      RecommendationValue(Alternate(k, c, a))>>]
          /\ analysis_text = AnalysisText(analysis_results)
          /\ calls =
                [k \in 1..Len(analysis_tasks) |->
                    AnalysisCall(k, Alternate(k, a, b))]
                    \o [k \in 1..Len(recommendation_areas) |->
                          RecommendationCall(k, Alternate(k, c, a))]
    /\ task = Len(recommendation_areas) + 1
    /\ export_data = NoExport
    /\ message = Shown("progress", <<>>)
    /\ runs = 1
    /\ ticks = 0
    /\ faults = TRUE
    /\ norm = NoNorm
    /\ roundtrip = NoRoundTrip

\* lines 469-471: the data of the JSON download button
DownloadJson ==
    /\ pc = "Done"
    /\ export_data.built
    /\ roundtrip.stage = "idle"
    /\ roundtrip' = [roundtrip EXCEPT !.stage = "dumped",
                                      !.data = DownloadData(export_data)]
    /\ UNCHANGED <<pipelineVars, norm>>

\* the downloaded file is parsed
ReadDownload ==
    /\ roundtrip.stage = "dumped"
    /\ roundtrip' = [roundtrip EXCEPT !.stage = "parsed",
                                      !.parsed = JsonLoads(roundtrip.data)]
    /\ UNCHANGED <<pipelineVars, norm>>

NextExport ==
    \/ ShowReport
    \/ DownloadJson
    \/ ReadDownload

SpecExport == InitExport /\ [][NextExport]_vars

-----------------------------------------------------------------------------
(* Properties *)

\* v is raw without its leading and trailing whitespace (raw not all blank)
TrimmedFrom(v, raw) ==
    \E i \in 1..Len(raw) : \E j \in i..Len(raw) :
        /\ v = SubSeq(raw, i, j)
        /\ raw[i] \notin Whitespace
        /\ raw[j] \notin Whitespace
        /\ \A k \in 1..Len(raw) : (k < i \/ k > j) => raw[k] \in Whitespace

\* the keys of a successful AnalysisRecord
AnalysisKeys == {"URL", "Title", "Content_Length"} \cup
                    {analysis_tasks[k] : k \in 1..Len(analysis_tasks)}
RecommendationKeys == {recommendation_areas[k] : k \in 1..Len(recommendation_areas)}

\* the completion requests of the analysis battery issued so far
AnalysisCalls == SelectSeq(calls, LAMBDA c : c.battery = "analysis")

\* C1: analyze_content on a FetchResult with success false and error x returns
\* exactly the one-key record {error: x} and has issued no completion request.
C1_FailedFetchReturnsOnlyError ==
    (pc = "AnalysisReturned" /\ ~scrape_result.success) =>
        /\ Len(analysis_results) = 1
        /\ analysis_results[1] = <<"error", scrape_result.error>>
        /\ calls = <<>>

C1_Witness ==
    /\ pc = "AnalysisReturned"
    /\ ~scrape_result.success
    /\ scrape_result.error = ConnectionMessage
    /\ analysis_results = <<<<"error", ConnectionMessage>>>>
    /\ url = HttpScheme \o ExampleCom

\* C2: when analyze_content returns for a successful fetch, all questions of
\* the battery were issued, in order, whichever of them failed; the key of a
\* failed question holds a string starting with "Analysis error: ", the key of
\* every other question its answer without surrounding whitespace.
C2_QuestionFailureIsContained ==
    (pc \in {"Analyzing", "AnalysisReturned"} /\ scrape_result.success) =>
        /\ Len(calls) = task - 1
        /\ pc = "AnalysisReturned" => Len(calls) = Len(analysis_tasks)
        /\ \A k \in 1..Len(calls) :
              /\ calls[k].battery = "analysis"
              /\ calls[k].key = analysis_tasks[k]
              /\ DictHas(analysis_results, analysis_tasks[k])
              /\ LET v == DictGet(analysis_results, analysis_tasks[k])
                 IN  IF calls[k].ok
                     THEN /\ \E raw \in RawAnswers(k) : TrimmedFrom(v, raw)
                          /\ ~StartsWith(v, AnalysisErrorPrefix)
                     ELSE StartsWith(v, AnalysisErrorPrefix)

C2_Witness ==
    /\ pc = "AnalysisReturned"
    /\ Len(calls) = Len(analysis_tasks)
    /\ ~calls[2].ok /\ calls[3].ok /\ ~calls[5].ok /\ ~calls[6].ok /\ calls[7].ok
    /\ StartsWith(DictGet(analysis_results, "Marketing Strategy"), AnalysisErrorPrefix)
    /\ DictGet(analysis_results, "Content Themes") = <<"a", "7">>

\* C3: an AnalysisRecord returned for a successful fetch has exactly the keys
\* URL, Title, Content_Length and the question names, a returned
\* RecommendationSet exactly the category names, whatever the page and
\* whichever completion requests failed; each question's and category's value
\* is an answer or an error string.
C3_FixedKeySets ==
    /\ (pc \in {"AnalysisReturned", "Analyzed", "Step3", "Recommending",
               "Recommended", "Reporting", "Done"}
            /\ scrape_result.success) =>
          /\ DictKeySet(analysis_results) = AnalysisKeys
          /\ Len(analysis_results) = Cardinality(AnalysisKeys)
          /\ \A k \in 1..Len(analysis_tasks) :
                LET v == DictGet(analysis_results, analysis_tasks[k])
                IN  \/ \E raw \in RawAnswers(k) : TrimmedFrom(v, raw)
                    \/ StartsWith(v, AnalysisErrorPrefix)
    /\ pc \in {"Recommended", "Reporting", "Done"} =>
          /\ DictKeySet(recommendations) = RecommendationKeys
          /\ Len(recommendations) = Cardinality(RecommendationKeys)
          /\ \A k \in 1..Len(recommendation_areas) :
                LET v == DictGet(recommendations, recommendation_areas[k])
                IN  \/ \E raw \in RawAnswers(k) : TrimmedFrom(v, raw)
                    \/ StartsWith(v, RecommendationErrorPrefix)

C3_Witness ==
    /\ pc = "Done"
    /\ scrape_result.title = NoTitleFound
    /\ Len(calls) = Len(analysis_tasks) + Len(recommendation_areas)
    /\ \A k \in 1..Len(calls) : ~calls[k].ok
    /\ DictKeySet(analysis_results) = AnalysisKeys
    /\ DictKeySet(recommendations) = RecommendationKeys

\* C4 as the spec states it: the content text placed in an analysis prompt
\* never exceeds the truncation bound of 4000 characters.
C4_PromptContentWithinLimit ==
    \A k \in 1..Len(calls) :
        calls[k].battery = "analysis" => calls[k].content_length <= ContentLimit

\* C4, amended: the content text placed in an analysis prompt never exceeds
\* the truncation bound plus the length of the truncation marker (4036
\* characters), and what exceeds the bound is the marker alone.
C4_PromptContentWithinLimitPlusMarker ==
    \A k \in 1..Len(calls) :
        calls[k].battery = "analysis" =>
            /\ calls[k].content_length = Len(structured_content.content)
            /\ calls[k].content_length <= ContentLimit + Len(TruncationMarker)
            /\ calls[k].content_length > ContentLimit =>
                  /\ calls[k].content_length = ContentLimit + Len(TruncationMarker)
                  /\ EndsWith(structured_content.content, TruncationMarker)

C4_Witness ==
    /\ pc = "AnalysisReturned"
    /\ scrape_result.success
    /\ Len(scrape_result.content) = ContentLimit + Len(TruncationMarker) + 1
    /\ Len(calls) = Len(analysis_tasks)
    /\ calls[7].content_length = ContentLimit + Len(TruncationMarker)

\* C5: for every content longer than the limit, the truncated content has
\* length limit + length(marker), starts with the first limit characters of
\* the content and ends with the marker.
C5_TruncatedShape ==
    (norm.stage \in {"once", "twice"} /\ Len(CleanText(norm.x)) > norm.limit) =>
        /\ Len(norm.once) = norm.limit + Len(TruncationMarker)
        /\ SubSeq(norm.once, 1, norm.limit) = SubSeq(CleanText(norm.x), 1, norm.limit)
        /\ EndsWith(norm.once, TruncationMarker)

C5_Witness ==
    /\ norm.stage = "once"
    /\ norm.limit = ContentLimit
    /\ Len(CleanText(norm.x)) = ContentLimit + 2
    /\ Len(norm.once) = ContentLimit + Len(TruncationMarker)

\* C6: normalize(normalize(x, L), L) = normalize(x, L) for every text x and
\* limit L, texts longer than L included.
C6_NormalizeIdempotent ==
    norm.stage = "twice" => norm.twice = norm.once

C6_Witness ==
    /\ norm.stage = "twice"
    /\ norm.limit = 2
    /\ norm.x = <<" ", "a", "\n", "a", "\t">>
    /\ Len(CleanText(norm.x)) > norm.limit
    /\ norm.once = <<"a", " ">> \o TruncationMarker
    /\ norm.twice = norm.once

\* C7: Content_Length is the length of the fetched (cleaned) content before
\* it is cut, whether that is below, at or above the limit.
C7_ContentLengthBeforeTruncation ==
    (pc \in {"Analyzing", "AnalysisReturned"} /\ scrape_result.success) =>
        /\ DictGet(analysis_results, "Content_Length") = Len(scrape_result.content)
        /\ DictGet(analysis_results, "Content_Length") = scrape_result.content_length
        /\ Len(scrape_result.content) > ContentLimit =>
              Len(structured_content.content)
                  = ContentLimit + Len(TruncationMarker)

C7_Witness ==
    /\ pc = "AnalysisReturned"
    /\ scrape_result.success
    /\ DictGet(analysis_results, "Content_Length") = ContentLimit + 1
    /\ Len(structured_content.content) = ContentLimit + Len(TruncationMarker)

\* 'HTTP Error: 404'
HTTPError404 ==
    <<"H","T","T","P"," ","E","r","r","o","r",":"," ","4","0","4">>

\* C8: every computed call of scrape_website returns a FetchResult: success
\* for a response without an error status, else success false with the error
\* chosen by cause: timeout, else connection failure, else HTTP status (with
\* the code), else the generic message; a timeout that is also a connection
\* failure is a timeout.
C8_FailureClassifiedByCause ==
    \A k \in 1..Len(scrapeLog) :
        scrapeLog[k].network =>
            LET o == scrapeLog[k].cause
                r == scrapeLog[k].result
                timeout    == o.kind = "raise" /\ "Timeout" \in o.exc.classes
                connection == o.kind = "raise" /\ "ConnectionError" \in o.exc.classes
                httpStatus == o.kind = "response" /\ o.status \in 400..599
            IN  /\ r.success = (o.kind = "response" /\ ~httpStatus)
                /\ ~r.success =>
                     /\ (r.error = TimeoutMessage) = timeout
                     /\ (r.error = ConnectionMessage) = (connection /\ ~timeout)
                     /\ StartsWith(r.error, HTTPErrorPrefix) = httpStatus
                     /\ httpStatus => r.error = HTTPErrorPrefix \o IntToText(o.status)
                     /\ o.status = 404 => r.error = HTTPError404
                     /\ StartsWith(r.error, UnexpectedPrefix)
                            = (~timeout /\ ~connection /\ ~httpStatus)
                     /\ (~timeout /\ ~connection /\ ~httpStatus) =>
                            r.error = UnexpectedPrefix \o o.exc.text

C8_Witness ==
    /\ pc = "Scraped"
    /\ Len(scrapeLog) = 1
    /\ scrapeLog[1].cause = Raised(ConnectTimeout)
    /\ scrape_result = FailureResult(TimeoutMessage)

Max(S) == CHOOSE x \in S : \A y \in S : x >= y

\* the earlier calls for the same URL that went to the network
FetchesBefore(j) ==
    {i \in 1..(j - 1) : scrapeLog[i].url = scrapeLog[j].url /\ scrapeLog[i].network}

\* C9: a call scrape_website(u) made less than the ttl after the call that
\* last fetched u returns that call's FetchResult without a network request;
\* any other call goes to the network, so no result is shared between
\* different URL strings.
C9_CachedWithinWindow ==
    /\ netCalls = Cardinality({k \in 1..Len(scrapeLog) : scrapeLog[k].network})
    /\ \A j \in 1..Len(scrapeLog) :
          IF /\ FetchesBefore(j) # {}
             /\ scrapeLog[j].at - scrapeLog[Max(FetchesBefore(j))].at < CacheTTL
          THEN /\ ~scrapeLog[j].network
               /\ scrapeLog[j].result = scrapeLog[Max(FetchesBefore(j))].result
          ELSE scrapeLog[j].network

C9_Witness ==
    /\ Len(scrapeLog) = 2
    /\ scrapeLog[1].url = scrapeLog[2].url
    /\ scrapeLog[1].network
    /\ scrapeLog[1].result.success
    /\ scrapeLog[2].at = scrapeLog[1].at + 3 * StepPause + TickStep
    /\ ~scrapeLog[2].network
    /\ scrapeLog[2].result = scrapeLog[1].result
    /\ netCalls = 1

\* the state of the spec's pipeline state machine a position stands for
Phase ==
    CASE pc \in {"Idle", "Rerun"} -> "Idle"
      [] pc = "Fetching" -> "Fetching"
      [] pc \in {"Scraped", "Step2"} ->
            IF scrape_result.success THEN "Fetched" ELSE "FetchFailed"
      [] pc = "Analyzing" -> "Analyzing"
      [] pc \in {"AnalysisReturned", "Analyzed", "Step3"} ->
            IF scrape_result.success THEN "Analyzed" ELSE "FetchFailed"
      [] pc \in {"Recommending", "Recommended", "Reporting"} -> "Recommending"
      [] pc = "FetchFailed" -> "FetchFailed"
      [] pc = "Done" -> "Done"

PhaseSteps ==
    { <<"Idle", "Fetching">>, <<"Fetching", "FetchFailed">>,
      <<"Fetching", "Fetched">>, <<"Fetched", "Analyzing">>,
      <<"Analyzing", "Analyzed">>, <<"Analyzed", "Recommending">>,
      <<"Recommending", "Done">> }

\* C10: within a request the pipeline moves only along Idle -> Fetching ->
\* (FetchFailed | Fetched) -> Analyzing -> Analyzed -> Recommending -> Done;
\* a request whose fetch failed has issued no completion request, has no
\* recommendations and no export bundle, shows the fetch error, and stays
\* failed without a further fetch until the user starts a new request.
C10_PipelineOrderAndShortCircuit ==
    [][ LET newRequest == runs' # runs
        IN  /\ (Phase' # Phase /\ ~newRequest) => <<Phase, Phase'>> \in PhaseSteps
            /\ newRequest =>
                  /\ Phase \in {"Idle", "Done", "FetchFailed"}
                  /\ Phase' \in {"Idle", "Fetching"}
            /\ Phase' = "FetchFailed" =>
                  /\ calls' = <<>>
                  /\ recommendations' = <<>>
                  /\ export_data' = NoExport
                  /\ pc' = "FetchFailed" =>
                        message' = Shown("error", scrape_result'.error)
            /\ (Phase = "FetchFailed" /\ ~newRequest) =>
                  /\ Phase' = "FetchFailed"
                  /\ netCalls' = netCalls
                  /\ scrapeLog' = scrapeLog
      ]_vars

C10_Witness ==
    /\ pc = "FetchFailed"
    /\ scrape_result = FailureResult(HTTPError404)
    /\ message = Shown("error", HTTPError404)
    /\ analysis_results = <<<<"error", HTTPError404>>>>
    /\ calls = <<>>
    /\ export_data = NoExport
    /\ netCalls = 1

\* the completion requests of the recommendation battery issued so far
RecommendationCalls == SelectSeq(calls, LAMBDA c : c.battery = "recommendation")

\* C11: in generate_recommendations every category is requested, in order,
\* whichever of them failed; when it returns all categories were requested.
\* The key of a failed category holds a string starting with
\* "Error generating recommendations: ", the key of every other category its
\* recommendation text without surrounding whitespace.
C11_CategoryFailureIsContained ==
    (pc \in {"Recommending", "Recommended", "Reporting", "Done"}) =>
        LET rcalls == RecommendationCalls
        IN  /\ Len(rcalls) = task - 1
            /\ pc \in {"Recommended", "Reporting", "Done"} =>
                  Len(rcalls) = Len(recommendation_areas)
            /\ Len(recommendations) = Len(rcalls)
            /\ \A k \in 1..Len(rcalls) :
                  /\ rcalls[k].key = recommendation_areas[k]
                  /\ recommendations[k][1] = recommendation_areas[k]
                  /\ LET v == recommendations[k][2]
                     IN  IF rcalls[k].ok
                         THEN /\ \E raw \in RawAnswers(k) : TrimmedFrom(v, raw)
                              /\ ~StartsWith(v, RecommendationErrorPrefix)
                         ELSE v = RecommendationErrorPrefix \o <<"q","u","o","t","a">>

C11_Witness ==
    /\ pc = "Recommended"
    /\ Len(RecommendationCalls) = Len(recommendation_areas)
    /\ ~RecommendationCalls[1].ok /\ RecommendationCalls[2].ok
    /\ ~RecommendationCalls[3].ok /\ RecommendationCalls[4].ok
    /\ StartsWith(DictGet(recommendations, "SEO Optimization"),
                  RecommendationErrorPrefix)
    /\ DictGet(recommendations, "Content Marketing") = <<"a", "2">>
    /\ DictGet(recommendations, "Conversion Optimization") = <<"a", "4">>

\* the pipeline of a request has the fetch behind it and is not yet finished
InPipeline ==
    pc \in {"Scraped", "Step2", "Analyzing", "AnalysisReturned", "Analyzed",
            "Step3", "Recommending", "Recommended", "Reporting"}

\* C12: completion-request failures never fail the request. The request-level
\* failure branch ("error" key in the analysis record) is taken if and only if
\* the fetch failed; and from every point of the pipeline of a successful
\* fetch, whichever analysis and recommendation requests have failed or will
\* fail, the run goes through the recommender and reaches Done with an export
\* bundle holding the analysis record and the recommendation set.
C12_CompletionFailuresNeverFailRequest ==
    /\ [](pc = "FetchFailed" => ~scrape_result.success)
    /\ [](pc = "AnalysisReturned" =>
            (RequestFailed(analysis_results) <=> ~scrape_result.success))
    /\ [](pc = "Done" =>
            /\ scrape_result.success
            /\ Len(RecommendationCalls) = Len(recommendation_areas)
            /\ export_data.built
            /\ export_data.analysis_results = analysis_results
            /\ export_data.recommendations = recommendations)
    /\ ((InPipeline /\ scrape_result.success) ~> (pc = "Done"))

C12_Witness ==
    /\ pc = "Done"
    /\ scrape_result.success
    /\ Len(calls) = Len(analysis_tasks) + Len(recommendation_areas)
    /\ \A k \in 1..Len(calls) : ~calls[k].ok
    /\ export_data.built
    /\ Len(export_data.recommendations) = Len(recommendation_areas)
    /\ message = Shown("report", <<>>)

\* the script run has entered the pipeline for the URL in url
Requested ==
    pc \in {"Fetching", "Scraped", "Step2", "Analyzing", "AnalysisReturned",
            "Analyzed", "Step3", "Recommending", "Recommended", "Reporting",
            "Done", "FetchFailed"}

HasScheme(u) == StartsWith(u, HttpScheme) \/ StartsWith(u, HttpsScheme)

\* C13: the URL handed to scrape_website and stored as the record's URL
\* always starts with http:// or https://. When a run enters the pipeline
\* with the input s (the stored example selection if there is one, else the
\* text box), the URL is s itself if s has one of the two prefixes, and
\* exactly "https://" followed by s otherwise.
C13_URLHasScheme ==
    [][ /\ (pc' = "Fetching" /\ pc # "Fetching") =>
              LET s == IF Len(example_url) > 0 THEN example_url ELSE text_input'
              IN  /\ Len(s) > 0
                  /\ HasScheme(s) => url' = s
                  /\ ~HasScheme(s) => url' = HttpsScheme \o s
        /\ Requested' => HasScheme(url')
        /\ \A k \in 1..Len(scrapeLog') : HasScheme(scrapeLog'[k].url)
        /\ (pc = "Fetching" /\ pc' = "Scraped") =>
              /\ Len(scrapeLog') = Len(scrapeLog) + 1
              /\ scrapeLog'[Len(scrapeLog')].url = url
              /\ url' = url
        /\ DictHas(analysis_results', "URL") =>
              /\ DictGet(analysis_results', "URL") = url'
              /\ HasScheme(DictGet(analysis_results', "URL"))
      ]_vars

C13_Witness ==
    /\ pc = "AnalysisReturned"
    /\ scrape_result.success
    /\ Len(scrapeLog) = 2
    /\ scrapeLog[1].url = HttpsScheme \o ExampleCom
    /\ scrapeLog[1].network
    /\ text_input = HttpScheme \o ExampleCom
    /\ scrapeLog[2].url = HttpScheme \o ExampleCom
    /\ scrapeLog[2].network
    /\ DictGet(analysis_results, "URL") = HttpScheme \o ExampleCom

\* 'Welcome Home About'
WelcomeHomeAbout ==
    <<"W","e","l","c","o","m","e"," ","H","o","m","e"," ","A","b","o","u","t">>

\* the keys of an AnalysisRecord that hold answers
ContentKeys(record) == DictKeySet(record) \ {"URL", "Title", "Content_Length"}

ExampleSites == {example_sites[k] : k \in 1..Len(example_sites)}

\* the scenario of C14: "example.com" typed into the text box and analysed,
\* the fetch successful with the content "Welcome Home About", the
\* AnalysisRecord returned
ExampleComScenario ==
    /\ pc = "AnalysisReturned"
    /\ text_input = ExampleCom
    /\ url \notin ExampleSites
    /\ scrape_result.success
    /\ scrape_result.content = WelcomeHomeAbout

\* C14 as the spec states it: in the scenario the fetcher got
\* "https://example.com" and the AnalysisRecord has exactly 5 populated
\* content keys plus URL = "https://example.com" and Content_Length = 19.
C14_ScenarioAsStated ==
    ExampleComScenario =>
        /\ scrapeLog[Len(scrapeLog)].url = HttpsScheme \o ExampleCom
        /\ DictGet(analysis_results, "URL") = HttpsScheme \o ExampleCom
        /\ Cardinality(ContentKeys(analysis_results)) = 5
        /\ \A key \in ContentKeys(analysis_results) :
              Len(DictGet(analysis_results, key)) > 0
        /\ DictGet(analysis_results, "Content_Length") = 19

\* C14, amended: in the scenario the fetcher got "https://example.com" and
\* the AnalysisRecord has exactly the 7 content keys of the program's
\* battery, each populated, plus URL = "https://example.com", Title and
\* Content_Length = 18, the number of characters of "Welcome Home About".
C14_ScenarioSevenKeysLength18 ==
    ExampleComScenario =>
        /\ url = HttpsScheme \o ExampleCom
        /\ scrapeLog[Len(scrapeLog)].url = HttpsScheme \o ExampleCom
        /\ DictGet(analysis_results, "URL") = HttpsScheme \o ExampleCom
        /\ ContentKeys(analysis_results)
              = {analysis_tasks[k] : k \in 1..Len(analysis_tasks)}
        /\ Cardinality(ContentKeys(analysis_results)) = 7
        /\ \A key \in ContentKeys(analysis_results) :
              Len(DictGet(analysis_results, key)) > 0
        /\ DictKeySet(analysis_results) \ ContentKeys(analysis_results)
              = {"URL", "Title", "Content_Length"}
        /\ Len(analysis_results) = 10
        /\ Len(WelcomeHomeAbout) = 18
        /\ DictGet(analysis_results, "Content_Length") = 18

C14_Witness ==
    /\ ExampleComScenario
    /\ Len(scrapeLog) = 1
    /\ scrapeLog[1].network
    /\ scrapeLog[1].url = HttpsScheme \o ExampleCom
    /\ Len(calls) = 7
    /\ DictGet(analysis_results, "Content_Length") = 18
    /\ DictGet(analysis_results, "Title") = NoTitleFound

\* the keys of the export bundle, in the order of the literal
ExportKeyTexts ==
    << <<"w","e","b","s","i","t","e","_","u","r","l">>,
       <<"w","e","b","s","i","t","e","_","t","i","t","l","e">>,
       <<"a","n","a","l","y","s","i","s","_","r","e","s","u","l","t","s">>,
       <<"r","e","c","o","m","m","e","n","d","a","t","i","o","n","s">>,
       <<"a","n","a","l","y","s","i","s","_","t","i","m","e","s","t","a","m","p">>,
       <<"a","n","a","l","y","z","e","d","_","b","y">>,
       <<"t","o","o","l","_","v","e","r","s","i","o","n">> >>

\* C15: the export bundle built from an AnalysisRecord and a
\* RecommendationSet, written as JSON and parsed back, has exactly the
\* bundle's seven keys, and its analysis_results and recommendations are the
\* records the analyzer and the recommender returned: the same keys in the
\* same order with the same values, nothing added or dropped.
C15_ExportRoundTrip ==
    roundtrip.stage = "parsed" =>
        LET back == roundtrip.parsed
        IN  /\ back.type = "obj"
            /\ DictKeys(back.items) = ExportKeyTexts
            /\ DictGet(back.items, ExportKeyTexts[3])
                  = JObj(DictJson(analysis_results))
            /\ DictGet(back.items, ExportKeyTexts[4])
                  = JObj(DictJson(recommendations))
            /\ DictGet(back.items, ExportKeyTexts[1]) = JStr(url)

C15_Witness ==
    /\ roundtrip.stage = "parsed"
    /\ DictGet(analysis_results, "Title") = <<"\n","A"," ","\"","B","\""," ","\\"," ","U+00E9","\t">>
    /\ DictGet(analysis_results, "SEO Keywords") = <<"a","\\","n","\"","b">>
    /\ DictGet(analysis_results, "Marketing Strategy")
          = AnalysisErrorPrefix \o <<"q","u","o","t","a">>
    /\ DictGet(recommendations, "SEO Optimization") = <<"\\","u","0","0","4","1">>
    /\ DictGet(DictGet(roundtrip.parsed.items, ExportKeyTexts[3]).items,
               KeyText("SEO Keywords")) = JStr(<<"a","\\","n","\"","b">>)
    /\ DictHas(DictGet(roundtrip.parsed.items, ExportKeyTexts[4]).items,
               KeyText("Conversion Optimization"))

HeadingTags == {"h1", "h2", "h3"}

\* the level-1, level-2 and level-3 headings of a page in document order
HeadingsInDocumentOrder(doc) ==
    LET found == SelectSeq(Remaining(doc), LAMBDA e : e.tag \in HeadingTags)
    IN  [k \in 1..Len(found) |-> Strip(found[k].text)]

\* C16 as the spec states it: the headings of a successful FetchResult are
\* the level-1, level-2 and level-3 headings of the page in document order,
\* whatever their levels, cut to the first 10.
C16_HeadingsInDocumentOrder ==
    \A k \in 1..Len(scrapeLog) :
        (scrapeLog[k].network /\ scrapeLog[k].result.success) =>
            LET inOrder == HeadingsInDocumentOrder(scrapeLog[k].cause.doc)
                n == IF Len(inOrder) < MaxHeadings THEN Len(inOrder)
                     ELSE MaxHeadings
            IN  /\ Len(scrapeLog[k].result.headings) <= MaxHeadings
                /\ scrapeLog[k].result.headings = SubSeq(inOrder, 1, n)

\* a page with a level-2 heading before its level-1 heading was fetched: the
\* headings returned are those of the page, the level-1 heading first
C16_Witness ==
    /\ pc = "Scraped"
    /\ Len(scrapeLog) = 1
    /\ scrapeLog[1].cause = Responded(200, DocHome)
    /\ HeadingsInDocumentOrder(DocHome)
          = << <<"A","b","o","u","t">>, <<"W","e","l","c","o","m","e">> >>
    /\ scrape_result.headings
          = << <<"W","e","l","c","o","m","e">>, <<"A","b","o","u","t">> >>

\* C18 as the spec states it: the cleaned text has no leading or trailing
\* whitespace, no whitespace character other than the single space, and no
\* two adjacent whitespace characters, for every text over spaces, tabs,
\* newlines and non-blank characters.
C18_WhitespaceCollapsed ==
    norm.stage = "once" =>
        LET cleaned == CleanText(norm.x)
        IN  /\ cleaned = Strip(cleaned)
            /\ \A i \in 1..Len(cleaned) :
                  cleaned[i] \in Whitespace => cleaned[i] = " "
            /\ \A i \in 1..(Len(cleaned) - 1) :
                  ~(cleaned[i] \in Whitespace /\ cleaned[i + 1] \in Whitespace)

\* a text with a tab between two words was cleaned, and the tab is kept
C18_Witness ==
    /\ norm.stage = "once"
    /\ norm.x = <<"a", " ", "\t", "a">>
    /\ norm.limit = MaxLimit
    /\ CleanText(norm.x) = <<"a", " ", "\t", "a">>

\* C19: the content is cut only when it is longer than the limit. Content
\* of at most 4000 characters, exactly 4000 included, goes into the prompt
\* body and into every analysis request unchanged, with no marker added.
C19_NoTruncationUpToLimit ==
    (pc \in {"Analyzing", "AnalysisReturned"} /\ scrape_result.success
        /\ Len(scrape_result.content) <= ContentLimit) =>
        /\ structured_content.content = scrape_result.content
        /\ \A k \in 1..Len(calls) :
              calls[k].content_length = Len(scrape_result.content)
        /\ Len(scrape_result.content) > Len(TruncationMarker) =>
              ~EndsWith(structured_content.content, TruncationMarker)

C19_Witness ==
    /\ pc = "AnalysisReturned"
    /\ scrape_result.success
    /\ Len(scrape_result.content) = ContentLimit
    /\ structured_content.content = scrape_result.content
    /\ Len(calls) = Len(analysis_tasks)
    /\ calls[1].content_length = ContentLimit

\* the completion requests of a finished request, by battery and key
ExpectedTrace ==
    << <<"analysis", "SEO Keywords">>, <<"analysis", "Marketing Strategy">>,
       <<"analysis", "Target Audience">>, <<"analysis", "Value Proposition">>,
       <<"analysis", "Call-to-Actions">>, <<"analysis", "Business Type">>,
       <<"analysis", "Content Themes">>,
       <<"recommendation", "SEO Optimization">>,
       <<"recommendation", "Content Marketing">>,
       <<"recommendation", "User Experience">>,
       <<"recommendation", "Conversion Optimization">> >>

\* what C17 says of one step, but for the number of network requests
CallsInOrder ==
    LET newRequest == runs' # runs
    IN  \* the fetcher is called once per request, before any completion request
        /\ scrapeLog' # scrapeLog =>
              /\ pc = "Fetching" /\ pc' = "Scraped"
              /\ scrapeLog' = Append(scrapeLog, scrapeLog'[Len(scrapeLog')])
              /\ calls = <<>> /\ calls' = <<>>
        /\ netCalls' # netCalls => scrapeLog' # scrapeLog
        /\ pc' = "Fetching" => (pc = "Rerun" \/ newRequest)
        /\ pc = "Fetching" => pc' = "Scraped"
        \* a step issues at most one completion request, after the earlier
        \* ones have returned or failed, and it is the next of the fixed order
        /\ (calls' # calls /\ pc' # "Fetching" /\ pc' # "Idle" /\ pc' # "Rerun") =>
              /\ scrape_result.success
              /\ Len(calls) < Len(ExpectedTrace)
              /\ calls' = Append(calls, calls'[Len(calls')])
              /\ <<calls'[Len(calls')].battery, calls'[Len(calls')].key>>
                    = ExpectedTrace[Len(calls')]
              /\ calls'[Len(calls')].ok \in BOOLEAN
        \* a finished request has made all of them
        /\ pc' = "Done" => Len(calls') = Len(ExpectedTrace)
        /\ pc' \in {"Recommending", "Recommended"} =>
              Len(calls') >= Len(analysis_tasks)

\* C17 as the spec states it: a request whose fetch succeeds makes exactly
\* one fetch, then each analysis question once in the fixed order, then each
\* recommendation category once in the fixed order, one call at a time and
\* none repeated after a failure.
C17_OneFetchThenCallsInOrder ==
    [][ /\ CallsInOrder
        /\ (pc = "Fetching" /\ scrape_result'.success) => netCalls' = netCalls + 1
      ]_vars

\* C17, amended: as stated, but the one call of the fetcher makes one network
\* request, or none when its result is served from the cache.
C17_OneScrapeThenCallsInOrder ==
    [][ /\ CallsInOrder
        /\ (pc = "Fetching" /\ scrape_result'.success) =>
              /\ Len(scrapeLog') = Len(scrapeLog) + 1
              /\ IF scrapeLog'[Len(scrapeLog')].network
                 THEN netCalls' = netCalls + 1
                 ELSE /\ netCalls' = netCalls
                      /\ Len(CacheLookup(cache, url, now)) = 1
      ]_vars

\* a request served from the cache has finished with failed calls on the way
C17_Witness ==
    /\ pc = "Done"
    /\ Len(calls) = Len(ExpectedTrace)
    /\ \A k \in 1..Len(calls) : <<calls[k].battery, calls[k].key>> = ExpectedTrace[k]
    /\ Len(scrapeLog) = 2
    /\ ~scrapeLog[2].network
    /\ netCalls = 1

\* the start of a digest line, for each key the digest leaves out
ExcludedLineStarts == {KeyText(key) \o <<":", " ">> : key \in DigestExcluded}

\* C20: the digest generate_recommendations sends with every request is one
\* "key: value" line for each key of the AnalysisRecord other than URL,
\* Title, Content_Length and error, in the order of the record, a field
\* holding an error string included like any other; no line of it is that
\* of one of those four keys.
C20_DigestOfSubstantiveFields ==
    (pc \in {"Recommending", "Recommended", "Reporting", "Done"}) =>
        LET digestLines ==
                [k \in 1..Len(analysis_tasks) |->
                    KeyText(analysis_tasks[k]) \o <<":", " ">>
                        \o DictGet(analysis_results, analysis_tasks[k])]
        IN  /\ DictKeys(analysis_results)
                  = <<"URL", "Title", "Content_Length">> \o analysis_tasks
            /\ analysis_text = Join(digestLines, <<"\n">>)
            /\ SplitLines(analysis_text) = digestLines
            /\ \A k \in 1..Len(digestLines) :
                  \A start \in ExcludedLineStarts :
                      ~StartsWith(digestLines[k], start)
            /\ \A k \in 1..Len(calls) :
                  calls[k].battery = "recommendation" =>
                      calls[k].content_length = Len(analysis_text)

C20_Witness ==
    /\ pc = "Done"
    /\ StartsWith(DictGet(analysis_results, "Marketing Strategy"),
                  AnalysisErrorPrefix)
    /\ DictGet(analysis_results, "Title") = NoTitleFound
    /\ StartsWith(analysis_text,
                  KeyText("SEO Keywords") \o <<":", " ", "a", "1", "\n">>
                      \o KeyText("Marketing Strategy") \o <<":", " ">>
                      \o AnalysisErrorPrefix)
    /\ Len(SplitLines(analysis_text)) = 7
    /\ calls[11].content_length = Len(analysis_text)

\* a script run is under way: a rerun is pending or the pipeline is running
Running == pc \in {"Rerun", "Fetching"} \/ InPipeline

\* the steps a script run has at most before it ends
Rank ==
    CASE pc = "Rerun" -> 25
      [] pc = "Fetching" -> 24
      [] pc = "Scraped" -> 23
      [] pc = "Step2" -> 22
      [] pc = "Analyzing" -> 22 - task
      [] pc = "AnalysisReturned" -> 14
      [] pc = "Analyzed" -> 13
      [] pc = "Step3" -> 12
      [] pc = "Recommending" -> 12 - task
      [] pc = "Recommended" -> 2
      [] pc = "Reporting" -> 1
      [] OTHER -> 0

\* C21: every triggered request with a non-empty URL reaches a terminal
\* state, FetchFailed or Done, provided the fetch and every completion
\* request return or fail. Every running state has a next step, every step
\* of a run brings its end nearer (no call is issued again, nothing loops),
\* and a terminal state is left only by a new user action.
C21_RequestTerminates ==
    /\ [](Running => ENABLED <<Next>>_vars)
    /\ [][ /\ Running => (runs' = runs /\ Rank' < Rank)
           /\ (pc \in {"Done", "FetchFailed"} /\ runs' = runs) => pc' = pc
         ]_vars
    /\ (Running ~> (pc \in {"Done", "FetchFailed"}))
    /\ \A n \in 1..MaxRuns :
          ((pc = "Fetching" /\ runs = n)
              ~> (pc \in {"Done", "FetchFailed"} /\ runs = n))

\* an example request has gone through the rerun and every call and has
\* ended in Done, though its first and its last completion request failed
C21_Witness ==
    /\ pc = "Done"
    /\ url = example_sites[1]
    /\ Len(calls) = Len(analysis_tasks) + Len(recommendation_areas)
    /\ ~calls[1].ok
    /\ ~calls[Len(calls)].ok
    /\ export_data.built

\* the calls of scrape_website for u that went to the network, failed, and
\* lie less than the ttl before the time t
FailedFetchesInWindow(u, t) ==
    {i \in 1..Len(scrapeLog) : /\ scrapeLog[i].url = u
                               /\ scrapeLog[i].network
                               /\ ~scrapeLog[i].result.success
                               /\ t - scrapeLog[i].at < CacheTTL}

\* C22: a failed FetchResult is cached like a successful one. When
\* scrape_website(u) is called less than the ttl after a call for u that went
\* to the network and returned success = false, it returns that same failure
\* and makes no network request, whatever the site would answer now; the
\* request then ends with that failure's message and no completion request.
C22_FailureServedFromCache ==
    /\ [][ (pc = "Fetching" /\ pc' = "Scraped") =>
             \A i \in FailedFetchesInWindow(url, now) :
                /\ netCalls' = netCalls
                /\ cache' = cache
                /\ scrape_result' = scrapeLog[i].result
                /\ ~scrapeLog'[Len(scrapeLog')].network
          ]_vars
    /\ [](\A j \in 1..Len(scrapeLog) :
             (FailedFetchesInWindow(scrapeLog[j].url, scrapeLog[j].at)
                 \cap 1..(j - 1) # {}) =>
                /\ ~scrapeLog[j].network
                /\ ~scrapeLog[j].result.success)
    /\ []((pc = "FetchFailed" /\ ~scrape_result.success) =>
             message = Shown("error", scrape_result.error))

\* the second request for a URL, made half an hour after its failed run,
\* has got the same failure without a network request and has ended with it
C22_Witness ==
    /\ pc = "FetchFailed"
    /\ Len(scrapeLog) = 2
    /\ scrapeLog[1].url = scrapeLog[2].url
    /\ scrapeLog[1].network
    /\ ~scrapeLog[1].result.success
    /\ scrapeLog[2].at = scrapeLog[1].at + StepPause + TickStep
    /\ scrapeLog[2].at - scrapeLog[1].at < CacheTTL
    /\ ~scrapeLog[2].network
    /\ scrapeLog[2].result = scrapeLog[1].result
    /\ scrape_result = scrapeLog[1].result
    /\ message = Shown("error", scrapeLog[1].result.error)
    /\ netCalls = 1
    /\ Len(calls) = 0

\* a script run with no trigger pressed that starts an analysis or leaves a
\* stored selection behind
RunAgainTriggers == RunAgain /\ (pc' # "Idle" \/ example_url' # <<>>)

\* C23: selecting an example site triggers exactly one pipeline run for that
\* example's URL. The selection is stored and the script reruns; in the rerun
\* the stored URL overrides the text input and forces the trigger, and the
\* selection is removed before the pipeline starts. A stored selection exists
\* only between the click and the rerun, the pipeline starts only in that
\* rerun or by the analyze button with the text input's URL, and a run with
\* no trigger pressed starts no analysis.
C23_ExampleRunsOnce ==
    /\ [][ /\ (pc # "Rerun" /\ pc' = "Rerun") =>
                 /\ Waiting
                 /\ example_url' \in ExampleSites
                 /\ runs' = runs + 1
                 /\ scrapeLog' = scrapeLog
           /\ (pc = "Rerun") =>
                 /\ pc' = "Fetching"
                 /\ url' = example_url
                 /\ example_url' = <<>>
                 /\ text_input' = text_input
                 /\ runs' = runs
                 /\ scrapeLog' = scrapeLog
           /\ (pc # "Rerun" /\ pc' = "Fetching") =>
                 /\ Waiting
                 /\ runs' = runs + 1
                 /\ Len(text_input') > 0
                 /\ url' = ValidateURL(text_input')
           /\ (pc = "Fetching") =>
                 /\ pc' = "Scraped"
                 /\ Len(scrapeLog') = Len(scrapeLog) + 1
                 /\ scrapeLog'[Len(scrapeLog')].url = url
                 /\ runs' = runs
           /\ (pc # "Fetching") => scrapeLog' = scrapeLog
         ]_vars
    /\ [](example_url # <<>> <=> pc = "Rerun")
    /\ [](Waiting => ~ENABLED RunAgainTriggers)

\* an example was selected and analysed once; the script has then run again
\* with no trigger: the selection is gone and nothing was analysed again
C23_Witness ==
    /\ pc = "Idle"
    /\ runs = 2
    /\ message = Shown("welcome", <<>>)
    /\ example_url = <<>>
    /\ text_input = <<>>
    /\ Len(scrapeLog) = 1
    /\ scrapeLog[1].url = example_sites[1]
    /\ scrapeLog[1].network
    /\ netCalls = 1
    /\ Len(calls) = 0

====
